---- MODULE Spec2Model ----
(***************************************************************************)
(* Serial <-> MIDI bridge (serialmidi.py).                                 *)
(*                                                                         *)
(* The module models the message-length classifier (get_midi_length), the  *)
(* Mega Everdrive PRO envelope (wrap_message_for_mega_pro), the byte-wise  *)
(* reassembler with running status inside serial_watcher, the two queues   *)
(* and the three workers of SerialMidi together with start(), stop() and   *)
(* main().  Bytes are integers 0..255, a message is a sequence of bytes.   *)
(***************************************************************************)
EXTENDS Integers, Sequences, FiniteSets, TLC

VARIABLES
    everdrive_pro,          \* args.everdrive_pro
    available_ports_in,     \* midiin.get_ports(): sequence of port names
    available_ports_out,    \* midiout.get_ports()
    serial_ok,              \* whether serial.Serial(...) will succeed
    ser_open,               \* self.ser exists (serial transport opened)
    midiout_open,           \* midiout.open_port was called
    midiin_open,            \* midiin.open_port was called
    callback_set,           \* midiin.set_callback was called
    port_index_in,          \* local of midi_watcher
    port_index_out,         \* local of midi_watcher
    thread_running,         \* self.thread_running
    midi_ready,             \* self.midi_ready
    main_pc,                \* position of the main thread
    watcher_pc,             \* position of the serial_watcher thread
    writer_pc,              \* position of the serial_writer thread
    midi_pc,                \* position of midi_watcher (thread or main thread)
    console,                \* lines printed to stdout, in order
    receiving_message,      \* local of serial_watcher
    running_status,         \* local of serial_watcher
    midiin_message_queue,   \* self.midiin_message_queue  (device -> serial)
    midiout_message_queue,  \* self.midiout_message_queue (serial -> device)
    fed,                    \* history: bytes returned by ser.read()
    emitted,                \* history: messages put by serial_watcher
    midi_sent,              \* history: messages given to midiout.send_message
    cb_delivered,           \* history: messages delivered to the input callback
    ser_written,            \* history: values given to ser.write
    ser_payload,            \* history: the messages those values were built from
    arg_message,            \* argument of the pure function under check
    fn_result               \* << >> before the call, then << its result >>

vars == << everdrive_pro, available_ports_in, available_ports_out, serial_ok,
           ser_open, midiout_open, midiin_open, callback_set, port_index_in,
           port_index_out, thread_running, midi_ready, main_pc, watcher_pc,
           writer_pc, midi_pc, console, receiving_message, running_status,
           midiin_message_queue, midiout_message_queue, fed, emitted,
           midi_sent, cb_delivered, ser_written, ser_payload, arg_message,
           fn_result >>

configVars == << everdrive_pro, available_ports_in, available_ports_out, serial_ok >>
lifeVars == << ser_open, midiout_open, midiin_open, callback_set, port_index_in,
               port_index_out, thread_running, midi_ready, main_pc, watcher_pc,
               writer_pc, midi_pc, console >>
readerVars == << receiving_message, running_status, fed, emitted >>
fnVars == << arg_message, fn_result >>

Byte == 0..255

(***************************************************************************)
(* Bounds of the model.                                                    *)
(***************************************************************************)
MaxFeed == 6          \* bytes fed to the reassembler in ReaderSpec
MaxSysexFeed == 102   \* bytes fed in SysexSpec
MaxSerialIn == 3      \* bytes the serial transport delivers in Spec
MaxCallback == 2      \* messages the MIDI input callback receives in Spec
MaxFairSerialIn == 2  \* bytes the serial transport delivers in FairSpec
MaxFairCallback == 2  \* messages the MIDI input callback receives in FairSpec
MaxMid == 1           \* inner bytes of the buffers classified in ClassifySpec
MaxWrapLen == 3       \* length of the short messages wrapped in WrapSpec

(***************************************************************************)
(* Sequences helpers.                                                      *)
(***************************************************************************)
Last(s) == s[Len(s)]

IsPrefix(s, t) == Len(s) <= Len(t) /\ SubSeq(t, 1, Len(s)) = s

\* x & 0xF0 on a byte
AndF0(x) == (x \div 16) * 16

(***************************************************************************)
(* get_midi_length(message)                                                *)
(***************************************************************************)
get_midi_length_wrong_realtime(message) ==
    IF Len(message) = 0 THEN 100
    ELSE LET opcode == message[1] IN
         IF opcode >= 248 THEN 1
         ELSE IF opcode \in {241, 243} THEN 2
         ELSE IF opcode = 242 THEN 3
         ELSE IF opcode = 240 /\ Last(message) = 247 THEN Len(message)
         ELSE IF AndF0(opcode) \in {128, 144, 160, 176, 224} THEN 3
         ELSE IF AndF0(opcode) \in {192, 208} THEN 2
         ELSE 100

get_midi_length(message) ==
    IF Len(message) = 0 THEN 100
    ELSE LET opcode == message[1] IN
         IF opcode >= 244 THEN 1                                   \* 0xF4
         ELSE IF opcode \in {241, 243} THEN 2                      \* 0xF1, 0xF3
         ELSE IF opcode = 242 THEN 3                               \* 0xF2
         ELSE IF opcode = 240 /\ Last(message) = 247 THEN Len(message)  \* 0xF0 .. 0xF7
         ELSE IF AndF0(opcode) \in {128, 144, 160, 176, 224} THEN 3
         ELSE IF AndF0(opcode) \in {192, 208} THEN 2
         ELSE 100

(***************************************************************************)
(* wrap_message_for_mega_pro(message)                                      *)
(***************************************************************************)
\* n.to_bytes(4, "big"), n < 2^32
to_bytes_4_big(n) ==
    << (n \div 16777216) % 256, (n \div 65536) % 256, (n \div 256) % 256, n % 256 >>

wrap_message_little_endian(message) ==
    << 43, 212, 26, 229, 1, 129, 0, 0 >>
        \o << Len(message) % 256, (Len(message) \div 256) % 256,
              (Len(message) \div 65536) % 256, (Len(message) \div 16777216) % 256 >>
        \o << 0 >> \o message

wrap_message_no_padding(message) ==
    << 43, 212, 26, 229, 1, 129, 0, 0 >> \o to_bytes_4_big(Len(message)) \o message

wrap_message_for_mega_pro(message) ==
    LET header == << 43, 212, 26, 229, 1, 129, 0, 0 >>   \* 2B D4 1A E5 01 81 00 00
        len_bytes == to_bytes_4_big(Len(message))
        padding == << 0 >>
    IN  header \o len_bytes \o padding \o message

\* serial_writer: value = bytearray(message); wrapped when everdrive_pro
writer_value(message, pro) ==
    IF pro THEN wrap_message_for_mega_pro(message) ELSE message

(***************************************************************************)
(* The body of serial_watcher's loop for one received byte.                *)
(* Result: the new receiving_message, the new running_status and the       *)
(* messages put on midiout_message_queue (none or one).                    *)
(***************************************************************************)
receive_byte_keep_status(rm, rs, b) ==
    LET appended == Append(rm, b)
        first == Len(appended) = 1
        buf == IF first /\ AndF0(appended[1]) = 0 THEN << rs, appended[1] >>
               ELSE appended
        message_length == get_midi_length(buf)
        complete == message_length <= Len(buf)
    IN  [ rm |-> IF complete THEN << >> ELSE buf,
          rs |-> rs,
          put |-> IF complete THEN << buf >> ELSE << >> ]

receive_byte(rm, rs, b) ==
    LET appended == Append(rm, b)
        first == Len(appended) = 1
        status == first /\ AndF0(appended[1]) # 0
        buf == IF first /\ ~status THEN << rs, appended[1] >> ELSE appended
        message_length == get_midi_length(buf)
        complete == message_length <= Len(buf)
    IN  [ rm |-> IF complete THEN << >> ELSE buf,
          rs |-> IF status THEN appended[1] ELSE rs,
          put |-> IF complete THEN << buf >> ELSE << >> ]

(***************************************************************************)
(* queue.Queue: put appends, get takes the oldest element.                 *)
(***************************************************************************)
queue_put_front(q, m) == << m >> \o q

queue_put(q, m) == Append(q, m)

queue_front(q) == Head(q)

queue_rest(q) == Tail(q)

(***************************************************************************)
(* MIDI port names are sequences of characters (small naturals).           *)
(* "given in s" of Python is the substring test.                           *)
(***************************************************************************)
is_substring(given, s) ==
    \E i \in 0..(Len(s) - Len(given)) : SubSeq(s, i + 1, i + Len(given)) = given

given_port_name_in == << 1, 2 >>      \* args.midi_in_name

given_port_name_out == << 1, 3 >>     \* args.midi_out_name

\* for i, s in enumerate(ports): if given in s: index = i   (indices from 0)
RECURSIVE port_index_loop(_, _, _, _)
port_index_loop(ports, given, i, index) ==
    IF i > Len(ports) THEN index
    ELSE port_index_loop(ports, given, i + 1,
                         IF is_substring(given, ports[i]) THEN i - 1 ELSE index)

find_port_index(ports, given) == port_index_loop(ports, given, 1, -1)

InPortLists == { << << 2, 1 >> >>, << << 1, 2 >>, << 0, 1, 2 >> >> }

OutPortLists == { << >>, << << 2, 2 >>, << 1, 3, 0 >> >> }

(***************************************************************************)
(* Input alphabets of the specifications.                                  *)
(***************************************************************************)
\* 0x00 0x40 0x41 0x7F 0x80 0x90 0xF8
ReaderBytes == { 0, 64, 65, 127, 128, 144, 248 }

\* 0x07 0xC5 0xF8
BridgeBytes == { 7, 197, 248 }

CallbackMessages == { << 144, 64, 127 >>, << 248 >> }

(***************************************************************************)
(* SerialMidi.__init__ : the state after construction.                     *)
(***************************************************************************)
InitObject ==
    /\ ser_open = FALSE
    /\ midiout_open = FALSE
    /\ midiin_open = FALSE
    /\ callback_set = FALSE
    /\ port_index_in = -1
    /\ port_index_out = -1
    /\ thread_running = TRUE
    /\ midi_ready = FALSE
    /\ main_pc = "start"
    /\ watcher_pc = "idle"
    /\ writer_pc = "idle"
    /\ midi_pc = "idle"
    /\ console = << >>
    /\ receiving_message = << >>
    /\ running_status = 0
    /\ midiin_message_queue = << >>
    /\ midiout_message_queue = << >>
    /\ fed = << >>
    /\ emitted = << >>
    /\ midi_sent = << >>
    /\ cb_delivered = << >>
    /\ ser_written = << >>
    /\ ser_payload = << >>

NoFunction ==
    /\ arg_message = << >>
    /\ fn_result = << >>

Init ==
    /\ everdrive_pro \in BOOLEAN
    /\ available_ports_in \in InPortLists
    /\ available_ports_out \in OutPortLists
    /\ serial_ok \in BOOLEAN
    /\ InitObject
    /\ NoFunction

(***************************************************************************)
(* start()                                                                 *)
(***************************************************************************)
start ==
    /\ main_pc = "start"
    /\ IF serial_ok
       THEN /\ ser_open' = TRUE
            /\ watcher_pc' = "wait_ready"
            /\ writer_pc' = "wait_ready"
            /\ midi_pc' = "enumerate"
            /\ main_pc' = "sleep"
            /\ console' = console
       ELSE /\ console' = Append(console, "Serial port opening error.")
            /\ midi_pc' = "enumerate"
            /\ main_pc' = "midi_watcher"
            /\ UNCHANGED << ser_open, watcher_pc, writer_pc >>
    /\ UNCHANGED << configVars, midiout_open, midiin_open, callback_set,
                    port_index_in, port_index_out, thread_running, midi_ready,
                    readerVars, midiin_message_queue, midiout_message_queue,
                    midi_sent, cb_delivered, ser_written, ser_payload, fnVars >>

(***************************************************************************)
(* main(): KeyboardInterrupt in the sleep loop, stop(), sys.exit(0).       *)
(***************************************************************************)
keyboard_interrupt ==
    /\ main_pc = "sleep"
    /\ console' = Append(console, "Terminating.")
    /\ main_pc' = "stop"
    /\ UNCHANGED << configVars, ser_open, midiout_open, midiin_open, callback_set,
                    port_index_in, port_index_out, thread_running, midi_ready,
                    watcher_pc, writer_pc, midi_pc,
                    readerVars, midiin_message_queue, midiout_message_queue,
                    midi_sent, cb_delivered, ser_written, ser_payload, fnVars >>

stop ==
    /\ main_pc = "stop"
    /\ thread_running' = FALSE
    /\ main_pc' = "exiting"
    /\ UNCHANGED << configVars, ser_open, midiout_open, midiin_open, callback_set,
                    port_index_in, port_index_out, midi_ready,
                    watcher_pc, writer_pc, midi_pc, console,
                    readerVars, midiin_message_queue, midiout_message_queue,
                    midi_sent, cb_delivered, ser_written, ser_payload, fnVars >>

process_exit_no_wait ==
    /\ main_pc = "exiting"
    /\ main_pc' = "exited"
    /\ UNCHANGED << configVars, ser_open, midiout_open, midiin_open, callback_set,
                    port_index_in, port_index_out, thread_running, midi_ready,
                    watcher_pc, writer_pc, midi_pc, console,
                    readerVars, midiin_message_queue, midiout_message_queue,
                    midi_sent, cb_delivered, ser_written, ser_payload, fnVars >>

\* sys.exit(0) in the main thread: the interpreter ends once the (non-daemon)
\* worker threads have ended.
process_exit ==
    /\ main_pc = "exiting"
    /\ watcher_pc = "done" /\ writer_pc = "done" /\ midi_pc = "done"
    /\ main_pc' = "exited"
    /\ UNCHANGED << configVars, ser_open, midiout_open, midiin_open, callback_set,
                    port_index_in, port_index_out, thread_running, midi_ready,
                    watcher_pc, writer_pc, midi_pc, console,
                    readerVars, midiin_message_queue, midiout_message_queue,
                    midi_sent, cb_delivered, ser_written, ser_payload, fnVars >>

\* start() after a failed serial open: midi_watcher() has returned or raised
\* SystemExit in the main thread; sys.exit() ends the process.
degraded_exit ==
    /\ main_pc = "midi_watcher"
    /\ midi_pc = "done"
    /\ main_pc' = "exited"
    /\ UNCHANGED << configVars, ser_open, midiout_open, midiin_open, callback_set,
                    port_index_in, port_index_out, thread_running, midi_ready,
                    watcher_pc, writer_pc, midi_pc, console,
                    readerVars, midiin_message_queue, midiout_message_queue,
                    midi_sent, cb_delivered, ser_written, ser_payload, fnVars >>

\* KeyboardInterrupt while the main thread is inside midi_watcher(): it is not
\* caught there, the process ends without stop() being called.
degraded_interrupt ==
    /\ main_pc = "midi_watcher"
    /\ midi_pc \in {"loop", "get"}
    /\ main_pc' = "exited"
    /\ midi_pc' = "killed"
    /\ UNCHANGED << configVars, ser_open, midiout_open, midiin_open, callback_set,
                    port_index_in, port_index_out, thread_running, midi_ready,
                    watcher_pc, writer_pc, console,
                    readerVars, midiin_message_queue, midiout_message_queue,
                    midi_sent, cb_delivered, ser_written, ser_payload, fnVars >>

(***************************************************************************)
(* midi_watcher()                                                          *)
(***************************************************************************)
dataVars == << readerVars, midiin_message_queue, midiout_message_queue,
               midi_sent, cb_delivered, ser_written, ser_payload, fnVars >>

\* lines 121-144: enumerate the ports, resolve the two names, report
midi_watcher_enumerate ==
    /\ midi_pc = "enumerate"
    /\ LET index_in == find_port_index(available_ports_in, given_port_name_in)
           index_out == find_port_index(available_ports_out, given_port_name_out)
           report_in == IF index_in = -1
                        THEN << "MIDI IN Device name is incorrect. Please use listed device name." >>
                        ELSE << >>
           report_out == IF index_out = -1
                         THEN << "MIDI OUT Device name is incorrect. Please use listed device name." >>
                         ELSE << >>
       IN  /\ port_index_in' = index_in
           /\ port_index_out' = index_out
           /\ console' = console \o report_in \o report_out
           /\ midi_pc' = IF index_in = -1 \/ index_out = -1 THEN "fail_stop" ELSE "open"
    /\ UNCHANGED << configVars, ser_open, midiout_open, midiin_open, callback_set,
                    thread_running, midi_ready, main_pc, watcher_pc, writer_pc,
                    dataVars >>

midi_watcher_fail_stop_keeps_running ==
    /\ midi_pc = "fail_stop"
    /\ midi_pc' = "fail_ready"
    /\ UNCHANGED << configVars, ser_open, midiout_open, midiin_open, callback_set,
                    port_index_in, port_index_out, thread_running, midi_ready,
                    main_pc, watcher_pc, writer_pc, console, dataVars >>

\* line 145
midi_watcher_fail_stop ==
    /\ midi_pc = "fail_stop"
    /\ thread_running' = FALSE
    /\ midi_pc' = "fail_ready"
    /\ UNCHANGED << configVars, ser_open, midiout_open, midiin_open, callback_set,
                    port_index_in, port_index_out, midi_ready, main_pc, watcher_pc,
                    writer_pc, console, dataVars >>

\* lines 146-147: midi_ready = True; sys.exit() ends the calling thread
midi_watcher_fail_ready ==
    /\ midi_pc = "fail_ready"
    /\ midi_ready' = TRUE
    /\ midi_pc' = "done"
    /\ UNCHANGED << configVars, ser_open, midiout_open, midiin_open, callback_set,
                    port_index_in, port_index_out, thread_running, main_pc,
                    watcher_pc, writer_pc, console, dataVars >>

\* lines 149-150
midi_watcher_open ==
    /\ midi_pc = "open"
    /\ midiout_open' = TRUE
    /\ midiin_open' = TRUE
    /\ midi_pc' = "set_ready"
    /\ UNCHANGED << configVars, ser_open, callback_set, port_index_in,
                    port_index_out, thread_running, midi_ready, main_pc,
                    watcher_pc, writer_pc, console, dataVars >>

\* line 152
midi_watcher_set_ready ==
    /\ midi_pc = "set_ready"
    /\ midi_ready' = TRUE
    /\ midi_pc' = "set_callback"
    /\ UNCHANGED << configVars, ser_open, midiout_open, midiin_open, callback_set,
                    port_index_in, port_index_out, thread_running, main_pc,
                    watcher_pc, writer_pc, console, dataVars >>

\* lines 154-155
midi_watcher_set_callback ==
    /\ midi_pc = "set_callback"
    /\ callback_set' = TRUE
    /\ midi_pc' = "loop"
    /\ UNCHANGED << configVars, ser_open, midiout_open, midiin_open,
                    port_index_in, port_index_out, thread_running, midi_ready,
                    main_pc, watcher_pc, writer_pc, console, dataVars >>

\* line 157: while self.thread_running
midi_watcher_loop ==
    /\ midi_pc = "loop"
    /\ midi_pc' = IF thread_running THEN "get" ELSE "done"
    /\ UNCHANGED << configVars, ser_open, midiout_open, midiin_open, callback_set,
                    port_index_in, port_index_out, thread_running, midi_ready,
                    main_pc, watcher_pc, writer_pc, console, dataVars >>

\* lines 158-162: get(timeout=0.4) then send_message, or queue.Empty
midi_watcher_drop_message(q, sent) == sent

midi_watcher_send(q, sent) == Append(sent, queue_front(q))

midi_watcher_get ==
    /\ midi_pc = "get"
    /\ \/ /\ midiout_message_queue # << >>
          /\ midi_sent' = midi_watcher_send(midiout_message_queue, midi_sent)
          /\ midiout_message_queue' = queue_rest(midiout_message_queue)
       \/ /\ midiout_message_queue = << >>
          /\ UNCHANGED << midi_sent, midiout_message_queue >>
    /\ midi_pc' = "loop"
    /\ UNCHANGED << configVars, ser_open, midiout_open, midiin_open, callback_set,
                    port_index_in, port_index_out, thread_running, midi_ready,
                    main_pc, watcher_pc, writer_pc, console,
                    readerVars, midiin_message_queue, cb_delivered, ser_written,
                    ser_payload, fnVars >>

(***************************************************************************)
(* midi_input_handler.__call__ : invoked by the MIDI input port while the  *)
(* MidiIn object of midi_watcher is alive and has the callback set.        *)
(* The handler's _wallclock is written and never read; it is left out.     *)
(***************************************************************************)
midi_input_handler(messages, max) ==
    /\ callback_set
    /\ midi_pc \in {"loop", "get"}
    /\ Len(cb_delivered) < max
    /\ \E message \in messages :
          /\ midiin_message_queue' = queue_put(midiin_message_queue, message)
          /\ cb_delivered' = Append(cb_delivered, message)
    /\ UNCHANGED << configVars, lifeVars, readerVars, midiout_message_queue,
                    midi_sent, ser_written, ser_payload, fnVars >>

(***************************************************************************)
(* serial_watcher()                                                        *)
(***************************************************************************)
serial_watcher_wait_no_gate ==
    /\ watcher_pc = "wait_ready"
    /\ watcher_pc' = "loop"
    /\ UNCHANGED << configVars, ser_open, midiout_open, midiin_open, callback_set,
                    port_index_in, port_index_out, thread_running, midi_ready,
                    main_pc, writer_pc, midi_pc, console, dataVars >>

\* lines 90-91: while not self.midi_ready: sleep
serial_watcher_wait ==
    /\ watcher_pc = "wait_ready"
    /\ midi_ready
    /\ watcher_pc' = "loop"
    /\ UNCHANGED << configVars, ser_open, midiout_open, midiin_open, callback_set,
                    port_index_in, port_index_out, thread_running, midi_ready,
                    main_pc, writer_pc, midi_pc, console, dataVars >>

serial_watcher_loop_ignores_flag ==
    /\ watcher_pc = "loop"
    /\ watcher_pc' = "read"
    /\ UNCHANGED << configVars, ser_open, midiout_open, midiin_open, callback_set,
                    port_index_in, port_index_out, thread_running, midi_ready,
                    main_pc, writer_pc, midi_pc, console, dataVars >>

\* line 93: while self.thread_running
serial_watcher_loop ==
    /\ watcher_pc = "loop"
    /\ watcher_pc' = IF thread_running THEN "read" ELSE "done"
    /\ UNCHANGED << configVars, ser_open, midiout_open, midiin_open, callback_set,
                    port_index_in, port_index_out, thread_running, midi_ready,
                    main_pc, writer_pc, midi_pc, console, dataVars >>

\* lines 94-118: ser.read() returns one byte, or nothing after the timeout
\* (logging.debug and the --string printout of lines 110-117 only write text
\* and are left out)
serial_watcher_read(bytes, max) ==
    /\ watcher_pc = "read"
    /\ \/ /\ Len(fed) < max
          /\ \E b \in bytes :
                LET r == receive_byte(receiving_message, running_status, b) IN
                /\ fed' = Append(fed, b)
                /\ receiving_message' = r.rm
                /\ running_status' = r.rs
                /\ emitted' = emitted \o r.put
                /\ midiout_message_queue' =
                       IF r.put = << >> THEN midiout_message_queue
                       ELSE queue_put(midiout_message_queue, r.put[1])
       \/ UNCHANGED << readerVars, midiout_message_queue >>
    /\ watcher_pc' = "loop"
    /\ UNCHANGED << configVars, ser_open, midiout_open, midiin_open, callback_set,
                    port_index_in, port_index_out, thread_running, midi_ready,
                    main_pc, writer_pc, midi_pc, console,
                    midiin_message_queue, midi_sent, cb_delivered, ser_written,
                    ser_payload, fnVars >>

(***************************************************************************)
(* serial_writer()                                                         *)
(***************************************************************************)
\* lines 73-74
serial_writer_wait ==
    /\ writer_pc = "wait_ready"
    /\ midi_ready
    /\ writer_pc' = "loop"
    /\ UNCHANGED << configVars, ser_open, midiout_open, midiin_open, callback_set,
                    port_index_in, port_index_out, thread_running, midi_ready,
                    main_pc, watcher_pc, midi_pc, console, dataVars >>

\* line 75
serial_writer_loop ==
    /\ writer_pc = "loop"
    /\ writer_pc' = IF thread_running THEN "get" ELSE "done"
    /\ UNCHANGED << configVars, ser_open, midiout_open, midiin_open, callback_set,
                    port_index_in, port_index_out, thread_running, midi_ready,
                    main_pc, watcher_pc, midi_pc, console, dataVars >>

\* lines 76-84: get(timeout=0.4), wrap, ser.write; or queue.Empty
serial_writer_get ==
    /\ writer_pc = "get"
    /\ \/ /\ midiin_message_queue # << >>
          /\ LET message == queue_front(midiin_message_queue) IN
             /\ ser_written' = Append(ser_written, writer_value(message, everdrive_pro))
             /\ ser_payload' = Append(ser_payload, message)
          /\ midiin_message_queue' = queue_rest(midiin_message_queue)
       \/ /\ midiin_message_queue = << >>
          /\ UNCHANGED << ser_written, ser_payload, midiin_message_queue >>
    /\ writer_pc' = "loop"
    /\ UNCHANGED << configVars, ser_open, midiout_open, midiin_open, callback_set,
                    port_index_in, port_index_out, thread_running, midi_ready,
                    main_pc, watcher_pc, midi_pc, console,
                    readerVars, midiout_message_queue, midi_sent, cb_delivered,
                    fnVars >>

(***************************************************************************)
(* The bridge: every thread of the program.                                *)
(***************************************************************************)
Next ==
    \/ start
    \/ keyboard_interrupt
    \/ stop
    \/ process_exit
    \/ degraded_exit
    \/ degraded_interrupt
    \/ midi_watcher_enumerate
    \/ midi_watcher_fail_stop
    \/ midi_watcher_fail_ready
    \/ midi_watcher_open
    \/ midi_watcher_set_ready
    \/ midi_watcher_set_callback
    \/ midi_watcher_loop
    \/ midi_watcher_get
    \/ midi_input_handler(CallbackMessages, MaxCallback)
    \/ serial_watcher_wait
    \/ serial_watcher_loop
    \/ serial_watcher_read(BridgeBytes, MaxSerialIn)
    \/ serial_writer_wait
    \/ serial_writer_loop
    \/ serial_writer_get

Spec == Init /\ [][Next]_vars

(***************************************************************************)
(* The bridge once start() has succeeded and midi_watcher has reached its  *)
(* loop: all workers are in their loops, nothing has been transferred.     *)
(***************************************************************************)
Running ==
    /\ available_ports_in = << << 1, 2 >>, << 0, 1, 2 >> >>
    /\ available_ports_out = << << 2, 2 >>, << 1, 3, 0 >> >>
    /\ serial_ok = TRUE
    /\ ser_open = TRUE
    /\ midiout_open = TRUE
    /\ midiin_open = TRUE
    /\ callback_set = TRUE
    /\ port_index_in = find_port_index(available_ports_in, given_port_name_in)
    /\ port_index_out = find_port_index(available_ports_out, given_port_name_out)
    /\ thread_running = TRUE
    /\ midi_ready = TRUE
    /\ main_pc = "sleep"
    /\ watcher_pc = "loop"
    /\ writer_pc = "loop"
    /\ midi_pc = "loop"
    /\ console = << >>
    /\ receiving_message = << >>
    /\ running_status = 0
    /\ midiout_message_queue = << >>
    /\ fed = << >>
    /\ emitted = << >>
    /\ midi_sent = << >>
    /\ cb_delivered = << >>
    /\ ser_written = << >>
    /\ ser_payload = << >>

(***************************************************************************)
(* ReaderSpec: the serial reader alone, fed byte by byte.                  *)
(***************************************************************************)
ReaderInit ==
    /\ Running
    /\ everdrive_pro = FALSE
    /\ midiin_message_queue = << >>
    /\ NoFunction

ReaderNext ==
    \/ serial_watcher_loop
    \/ serial_watcher_read(ReaderBytes, MaxFeed)

ReaderSpec == ReaderInit /\ [][ReaderNext]_vars

(***************************************************************************)
(* SysexSpec: the serial reader fed System Exclusive streams: 0xF0 when    *)
(* the buffer is empty, then data bytes 0x01 or the terminator 0xF7.       *)
(***************************************************************************)
MaxSysexMessages == 2

SysexBytes ==
    IF Len(emitted) >= MaxSysexMessages THEN { }
    ELSE IF receiving_message = << >> THEN { 240 }
    ELSE { 1, 247 }

SysexNext ==
    \/ serial_watcher_loop
    \/ serial_watcher_read(SysexBytes, MaxSysexFeed)

SysexSpec == ReaderInit /\ [][SysexNext]_vars

(***************************************************************************)
(* ClassifySpec: get_midi_length called on a buffer.                       *)
(***************************************************************************)
MidBytes == { 0, 247 }

RECURSIVE SeqsUpTo(_, _)
SeqsUpTo(S, n) ==
    IF n = 0 THEN { << >> }
    ELSE LET shorter == SeqsUpTo(S, n - 1) IN
         shorter \cup { Append(s, x) : s \in { t \in shorter : Len(t) = n - 1 }, x \in S }

ClassifyInputs ==
    { << >> } \cup { << a >> : a \in Byte }
        \cup { << a >> \o mid \o << b >> : a \in Byte, b \in Byte, mid \in SeqsUpTo(MidBytes, MaxMid) }

ClassifyInit ==
    /\ Running
    /\ everdrive_pro = FALSE
    /\ midiin_message_queue = << >>
    /\ arg_message \in ClassifyInputs
    /\ fn_result = << >>

classify_call ==
    /\ fn_result = << >>
    /\ fn_result' = << get_midi_length(arg_message) >>
    /\ UNCHANGED << configVars, lifeVars, readerVars, midiin_message_queue,
                    midiout_message_queue, midi_sent, cb_delivered, ser_written,
                    ser_payload, arg_message >>

ClassifyNext == classify_call

ClassifySpec == ClassifyInit /\ [][ClassifyNext]_vars

(***************************************************************************)
(* WrapSpec: wrap_message_for_mega_pro called on a message, and the serial *)
(* writer taking that message from the device -> serial queue.             *)
(***************************************************************************)
WrapBytes == { 0, 64, 127, 144, 247 }

LongLengths == { 255, 256, 257, 65536 }

LongMessage(n) == [ i \in 1..n |-> i % 256 ]

WrapInputs == SeqsUpTo(WrapBytes, MaxWrapLen) \cup { LongMessage(n) : n \in LongLengths }

WrapInit ==
    /\ Running
    /\ everdrive_pro \in BOOLEAN
    /\ arg_message \in WrapInputs
    /\ midiin_message_queue = IF arg_message = << >> THEN << >> ELSE << arg_message >>
    /\ fn_result = << >>

wrap_call ==
    /\ fn_result = << >>
    /\ fn_result' = << wrap_message_for_mega_pro(arg_message) >>
    /\ UNCHANGED << configVars, lifeVars, readerVars, midiin_message_queue,
                    midiout_message_queue, midi_sent, cb_delivered, ser_written,
                    ser_payload, arg_message >>

WrapNext ==
    \/ wrap_call
    \/ serial_writer_loop
    \/ serial_writer_get

WrapSpec == WrapInit /\ [][WrapNext]_vars

(***************************************************************************)
(* Properties.                                                             *)
(***************************************************************************)
\* the serial reader has just taken byte b as the first byte of a message
FirstByteFed(b) ==
    /\ receiving_message = << >>
    /\ fed' = Append(fed, b)

\* C1: running-status continuation.  When the stream is S, a, b, d1, d2 with S a
\* note-off/note-on status and a, b, d1, d2 data bytes (below 0x80), the reader
\* emits exactly [S, a, b] and then [S, d1, d2]; in particular
\* 90 40 7F 41 7F yields [90 40 7F] and [90 41 7F].
C1_RunningStatusContinuation ==
    /\ fed = << 144, 64, 127, 65, 127 >>
          => emitted = << << 144, 64, 127 >>, << 144, 65, 127 >> >>
    /\ ( /\ Len(fed) = 5
         /\ fed[1] \in {128, 144}
         /\ \A i \in 2..5 : fed[i] < 128 )
          => emitted = << << fed[1], fed[2], fed[3] >>, << fed[1], fed[4], fed[5] >> >>

\* C2: an explicit status byte at the start of a message replaces the running
\* status.  90 40 7F 80 40 00 yields exactly [90 40 7F] and [80 40 00] and
\* leaves the running status at 0x80; and whenever a status byte 0x80..0xF3
\* arrives as the first byte of a message it becomes the running status.
C2_ExplicitStatusReplaces ==
    /\ [](fed = << 144, 64, 127, 128, 64, 0 >>
            => /\ emitted = << << 144, 64, 127 >>, << 128, 64, 0 >> >>
               /\ running_status = 128)
    /\ [][\A b \in 128..243 : FirstByteFed(b) => running_status' = b]_vars

C2_Witness ==
    /\ fed = << 144, 64, 127, 128, 64, 0 >>
    /\ Len(emitted) = 2
    /\ receiving_message = << >>

\* C3: a real-time byte (0xF4..0xFF) received as the first byte of a message
\* is emitted as a one-byte message and leaves the running status as it was.
C3_RealTimeKeepsRunningStatus ==
    [][\A b \in 244..255 :
          FirstByteFed(b) => /\ emitted' = Append(emitted, << b >>)
                             /\ running_status' = running_status]_vars

\* The classification table of the specification, as a function of the first
\* byte, the last byte and the length of the buffer.
classify_table(first, last, len) ==
    CASE len = 0 -> 100
      [] len > 0 /\ first >= 244 -> 1
      [] len > 0 /\ first \in {241, 243} -> 2
      [] len > 0 /\ first = 242 -> 3
      [] len > 0 /\ first = 240 -> IF last = 247 THEN len ELSE 100
      [] len > 0 /\ first < 240 /\ first \div 16 \in {8, 9, 10, 11, 14} -> 3
      [] len > 0 /\ first < 240 /\ first \div 16 \in {12, 13} -> 2
      [] OTHER -> 100

\* C4: get_midi_length agrees with the classification table on every buffer;
\* its result is determined by the first byte, the last byte and the length.
C4_ClassifierTable ==
    fn_result # << >> =>
        fn_result[1] = IF arg_message = << >> THEN classify_table(0, 0, 0)
                       ELSE classify_table(arg_message[1], Last(arg_message),
                                           Len(arg_message))

C4_Witness ==
    /\ fn_result = << 3 >>
    /\ arg_message = << 240, 247, 247 >>

\* C5: every message the serial reader emits that starts with 0xF0 ends
\* with 0xF7, however many bytes followed the 0xF0.
C5_SysexEndsWithF7 ==
    \A i \in 1..Len(emitted) : emitted[i][1] = 240 => Last(emitted[i]) = 247

\* big-endian decoding of four bytes
from_bytes_4_big(bs) == bs[1] * 16777216 + bs[2] * 65536 + bs[3] * 256 + bs[4]

\* C6: the envelope is the fixed header, the 4-byte big-endian length of the
\* message, one zero byte and the message itself: 13 bytes longer than the
\* message, the length field decodes to the message length, the payload is
\* whole.  With the envelope mode off the serial writer writes the message.
C6_EnvelopeLayout ==
    /\ fn_result # << >> =>
          LET w == fn_result[1] IN
          /\ Len(w) = Len(arg_message) + 13
          /\ SubSeq(w, 1, 8) = << 43, 212, 26, 229, 1, 129, 0, 0 >>
          /\ from_bytes_4_big(SubSeq(w, 9, 12)) = Len(arg_message)
          /\ w[13] = 0
          /\ SubSeq(w, 14, Len(w)) = arg_message
    /\ (~everdrive_pro /\ ser_written # << >>) => ser_written = << arg_message >>

C6_Witness ==
    /\ fn_result # << >>
    /\ Len(arg_message) = 256
    /\ ~everdrive_pro
    /\ ser_written # << >>

\* C7 as stated: wrapping [90 40 7F] gives 2BD41AE5018100000000000390407F
\* (15 bytes: header, length 3, payload).
C7_EnvelopeExampleAsStated ==
    (arg_message = << 144, 64, 127 >> /\ fn_result # << >>)
        => fn_result[1] = << 43, 212, 26, 229, 1, 129, 0, 0, 0, 0, 0, 3, 144, 64, 127 >>

\* C7 amended: wrapping [90 40 7F] gives 2BD41AE501810000000000030090407F
\* (16 bytes: header, length 3, the zero padding byte, payload).
C7_EnvelopeExample ==
    (arg_message = << 144, 64, 127 >> /\ fn_result # << >>)
        => fn_result[1] = << 43, 212, 26, 229, 1, 129, 0, 0, 0, 0, 0, 3, 0, 144, 64, 127 >>

C7_Witness ==
    /\ arg_message = << 144, 64, 127 >>
    /\ fn_result # << >>

(***************************************************************************)
(* FairSpec: the bridge with every thread of the program scheduled fairly. *)
(* The interrupt and the arrival of bytes and MIDI input are not forced.   *)
(***************************************************************************)
main_thread == start \/ stop \/ process_exit \/ degraded_exit

midi_watcher ==
    \/ midi_watcher_enumerate
    \/ midi_watcher_fail_stop
    \/ midi_watcher_fail_ready
    \/ midi_watcher_open
    \/ midi_watcher_set_ready
    \/ midi_watcher_set_callback
    \/ midi_watcher_loop
    \/ midi_watcher_get

serial_watcher(bytes, max) ==
    \/ serial_watcher_wait
    \/ serial_watcher_loop
    \/ serial_watcher_read(bytes, max)

serial_writer ==
    \/ serial_writer_wait
    \/ serial_writer_loop
    \/ serial_writer_get

\* 0xF8
FairBytes == { 248 }

FairMessages == { << 248 >> }

FairNext ==
    \/ main_thread
    \/ keyboard_interrupt
    \/ degraded_interrupt
    \/ midi_watcher
    \/ midi_input_handler(FairMessages, MaxFairCallback)
    \/ serial_watcher(FairBytes, MaxFairSerialIn)
    \/ serial_writer

FairSpec ==
    /\ Init
    /\ [][FairNext]_vars
    /\ WF_vars(main_thread)
    /\ WF_vars(midi_watcher)
    /\ WF_vars(serial_watcher(FairBytes, MaxFairSerialIn))
    /\ WF_vars(serial_writer)

\* C8: per-direction FIFO.  The messages sent to the MIDI output port are a
\* prefix of the messages emitted by the serial reader, and the messages
\* written to the serial transport (before framing) are a prefix of the
\* messages delivered to the MIDI input callback.
C8_FifoPerDirection ==
    /\ IsPrefix(midi_sent, emitted)
    /\ IsPrefix(ser_payload, cb_delivered)
    /\ Len(ser_written) = Len(ser_payload)
    /\ \A i \in 1..Len(ser_written) :
          ser_written[i] = IF everdrive_pro
                           THEN wrap_message_for_mega_pro(cb_delivered[i])
                           ELSE cb_delivered[i]

C8_Witness ==
    /\ Len(midi_sent) >= 2
    /\ midi_sent[1] # midi_sent[2]
    /\ Len(ser_written) >= 2
    /\ ser_payload[1] # ser_payload[2]

\* the interrupt that leads to stop() has arrived
StopRequested == main_pc \in {"stop", "exiting", "exited"}

\* C9: no message is lost while the bridge runs (the three workers were
\* started) and stop is not requested: the n-th message put by the serial
\* reader is eventually sent to the MIDI output port, and the n-th message
\* put by the input callback is eventually written to the serial transport.
C9_NoMessageLost ==
    /\ \A n \in 1..MaxFairSerialIn :
          (Len(emitted) >= n) ~> (Len(midi_sent) >= n \/ StopRequested)
    /\ \A n \in 1..MaxFairCallback :
          (ser_open /\ Len(cb_delivered) >= n) ~> (Len(ser_written) >= n \/ StopRequested)

C9_Witness ==
    /\ Len(midi_sent) >= 2
    /\ Len(ser_written) >= 2
    /\ midiout_message_queue = << >>
    /\ midiin_message_queue = << >>
    /\ ~StopRequested

\* C10: when a configured MIDI port name is not found, the failure is
\* reported with no transport opened, neither the serial transport nor a
\* MIDI port.
C10_PortNotFoundOpensNothing ==
    ( /\ midi_pc \in {"fail_stop", "fail_ready", "done"}
      /\ (port_index_in = -1 \/ port_index_out = -1) )
        => ~ser_open /\ ~midiin_open /\ ~midiout_open

\* midi_watcher has resolved the port names and one of them was not found
PortNotFound ==
    /\ midi_pc \notin {"idle", "enumerate"}
    /\ (port_index_in = -1 \/ port_index_out = -1)

C12_DegradedTerminates ==
    /\ [](main_pc = "midi_watcher" => watcher_pc = "idle" /\ writer_pc = "idle")
    /\ (main_pc = "midi_watcher") ~> (main_pc = "exited")

WorkersDone == watcher_pc = "done" /\ writer_pc = "done" /\ midi_pc = "done"

\* C13: cooperative shutdown.  Once stop() has cleared thread_running, the
\* serial reader, the serial writer and the MIDI pump each eventually leave
\* their loop and end, wherever they were when stop was requested.
C13_CooperativeShutdown ==
    /\ (main_pc = "exiting") ~> (watcher_pc = "done")
    /\ (main_pc = "exiting") ~> (writer_pc = "done")
    /\ (main_pc = "exiting") ~> (midi_pc = "done")

C13_Witness ==
    /\ main_pc = "exited"
    /\ WorkersDone
    /\ console = << "Terminating." >>
    /\ midiin_message_queue # << >>
    /\ midiout_message_queue # << >>

\* index (from 0) of the first port name that contains the given name
first_match(ports, given) ==
    CHOOSE i \in 0..(Len(ports) - 1) :
        /\ is_substring(given, ports[i + 1])
        /\ \A j \in 0..(i - 1) : ~is_substring(given, ports[j + 1])

has_match(ports, given) == \E i \in 1..Len(ports) : is_substring(given, ports[i])

\* C14: the selected port is the first enumerated port whose name contains
\* the configured name, for the input and for the output port.
C14_FirstMatchSelected ==
    midi_pc \notin {"idle", "enumerate"} =>
        /\ has_match(available_ports_in, given_port_name_in)
              => port_index_in = first_match(available_ports_in, given_port_name_in)
        /\ has_match(available_ports_out, given_port_name_out)
              => port_index_out = first_match(available_ports_out, given_port_name_out)

\* C15: the running status is the initial value (none, 0) or a status byte
\* (0x80 or above), and a leading data byte (below 0x80) never changes it.
C15_RunningStatusIsStatusByte ==
    /\ [](running_status = 0 \/ running_status >= 128)
    /\ [][\A b \in 0..127 : FirstByteFed(b) => running_status' = running_status]_vars

\* C16: every message the serial reader emits is as long as get_midi_length
\* says for it.
C16_EmittedLengthIsVerdict ==
    \A i \in 1..Len(emitted) : Len(emitted[i]) = get_midi_length(emitted[i])

\* the serial reader has just taken byte b
ByteFed(b) == fed' = Append(fed, b)

\* the buffer the reader classifies after taking byte b, by the rule of the
\* specification: a leading data byte (below 0x80) is preceded by the running
\* status
buffer_with(b) ==
    IF receiving_message = << >> /\ b < 128 THEN << running_status, b >>
    ELSE Append(receiving_message, b)

\* C17: while the classifier returns Unknown (100) for the accumulated
\* buffer, a byte only extends the buffer and nothing is emitted.
C17_UnknownOnlyExtends ==
    [][\A b \in Byte :
          (ByteFed(b) /\ receiving_message # << >>
              /\ get_midi_length(Append(receiving_message, b)) = 100)
          => /\ receiving_message' = Append(receiving_message, b)
             /\ emitted' = emitted]_vars

\* C18 as stated: when termination is reported ("Terminating." printed, stop()
\* returned) the three workers have left their loops.
C18_ReportedAfterWorkersExitAsStated ==
    main_pc \in {"exiting", "exited"} => WorkersDone

\* C18 amended: the process ends after a stop only when the three workers
\* have ended (sys.exit(0) waits for the worker threads); "Terminating." is
\* printed and stop() returns before that, without joining them.
C18_ExitedAfterWorkersExit ==
    (main_pc = "exited" /\ ser_open) => WorkersDone

C18_Witness ==
    /\ main_pc = "exited"
    /\ ser_open
    /\ Len(midi_sent) >= 1

\* C19: after each received byte either exactly one message was emitted and
\* the buffer is empty, or nothing was emitted and the buffer is the previous
\* buffer extended by the byte, preceded by the running status when the byte
\* is a leading data byte.
C19_ClearedExactlyOnEmit ==
    [][\A b \in Byte : ByteFed(b) =>
          \/ /\ Len(emitted') = Len(emitted) + 1
             /\ receiving_message' = << >>
          \/ /\ emitted' = emitted
             /\ receiving_message' # << >>
             /\ receiving_message' = buffer_with(b)]_vars

\* C20: the serial reader and writer touch neither the serial transport nor a
\* queue before they have seen midi_ready, and after a failed port resolution
\* they never do.
C20_ReadinessGating ==
    /\ watcher_pc \in {"loop", "read", "done"} => midi_ready
    /\ writer_pc \in {"loop", "get", "done"} => midi_ready
    /\ (fed # << >> \/ ser_written # << >>) => midi_ready
    /\ PortNotFound =>
          /\ watcher_pc # "read" /\ writer_pc # "get"
          /\ fed = << >> /\ emitted = << >> /\ midiout_message_queue = << >>
          /\ ser_written = << >> /\ midiin_message_queue = << >>

C20_Witness ==
    /\ PortNotFound
    /\ ser_open
    /\ watcher_pc = "done"
    /\ writer_pc = "done"
    /\ main_pc = "sleep"

====
